---- MODULE Spec2Model ----
(***************************************************************************)
(* Model of infinigen_examples/place_cameras.py: the re-pose workflow      *)
(* (load, delete old camera rigs, classify mesh objects, place new rigs,   *)
(* save) run against the host application's scene state.                   *)
(*                                                                         *)
(* A scene object is a record [id, type, tags]; bpy.data.objects is the    *)
(* sequence `objects` in the host's enumeration order.  Every call into    *)
(* the host or the placement library may raise; re_pose_cameras has no     *)
(* try/except, so a raised error leaves the function at that statement.    *)
(***************************************************************************)
EXTENDS Integers, Sequences, FiniteSets, TLC

\* ---------------------------------------------------------------- bounds
MaxObjs == 3        \* objects in the scene file given to the first run
NCameraRigs == 2    \* rigs one call of spawn_camera_rigs creates (gin-configured)
MaxRuns == 2        \* invocations of the script, each on the previous output

\* ------------------------------------------------------------- vocabulary
Room == "Room"                       \* t.Semantics.Room
Types == {"MESH", "EMPTY"}           \* o.type; only 'MESH' is tested by the code
TagSets == {{}, {Room}}              \* what tagging.get_tags(o) can report

VARIABLES
    objects,               \* bpy.data.objects: Seq of [id, type, tags]
    hasColl,               \* "camera_rigs" in bpy.data.collections
    coll,                  \* ids of bpy.data.collections["camera_rigs"].objects
    selected,              \* ids of the objects selected in the host
    inputFile,             \* the scene file at args.input_blend
    outputFile,            \* <<>> or <<scene>>: the file written by this run
    pc,                    \* the statement of re_pose_cameras to run next
    run,                   \* number of the current invocation
    nextId,                \* next fresh object handle
    solved_rooms,          \* local of re_pose_cameras (ids)
    nonroom_objs,          \* local of re_pose_cameras (ids)
    scene_objs,            \* local of re_pose_cameras (ids)
    scene_preprocessed,    \* local: TRUE once the token was produced
    camera_rigs,           \* local: ids returned by spawn_camera_rigs
    extracted,             \* the list comprehension's result (ids)
    solved_floor_surface,  \* local: id of the joined object, 0 before the join
    calls,                 \* external calls issued by this run, in order
    raised,                \* the call that raised in this run, or "none"
    visited,               \* workflow states this run has reached, in order
    tagLookups,            \* ids passed to tagging.get_tags by this run, in order
    joinCalls,             \* argument lists passed to butil.join_objects
    solveCalls,            \* argument records passed to cam_traj.compute_poses
    prevOut,               \* <<>> or <<scene>>: the output of the previous run
    prevRigs               \* ids spawned by the previous run

vars == <<objects, hasColl, coll, selected, inputFile, outputFile, pc, run,
          nextId, solved_rooms, nonroom_objs, scene_objs, scene_preprocessed,
          camera_rigs, extracted, solved_floor_surface, calls, raised, visited,
          tagLookups, joinCalls, solveCalls, prevOut, prevRigs>>

scene == <<objects, hasColl, coll, selected>>
locals == <<solved_rooms, nonroom_objs, scene_objs, scene_preprocessed,
            camera_rigs, extracted, solved_floor_surface>>
disk == <<inputFile, outputFile, prevOut, prevRigs, run>>

\* ---------------------------------------------------------------- helpers
Range(s) == {s[i] : i \in 1..Len(s)}
Ids(objs) == [i \in 1..Len(objs) |-> objs[i].id]
IdSet(objs) == {objs[i].id : i \in 1..Len(objs)}
Count(s, x) == Cardinality({i \in 1..Len(s) : s[i] = x})
NoDup(s) == \A i, j \in 1..Len(s) : s[i] = s[j] => i = j
FreshIds(from, n) == [i \in 1..n |-> from + i - 1]
NewObjs(ids, type) == [i \in 1..Len(ids) |-> [id |-> ids[i], type |-> type, tags |-> {}]]
RemoveIds(objs, dead) == SelectSeq(objs, LAMBDA o : o.id \notin dead)

SceneFile(objs, hc, c, sel) ==
    [objects |-> objs, hasColl |-> hc, coll |-> c, selected |-> sel]

\* The scene files the first run can be given: up to MaxObjs objects of any
\* type and tag set, with or without a "camera_rigs" collection (of any
\* members), and at most one object left selected when the file was saved.
IsInitialFile(f) ==
    \E n \in 0..MaxObjs :
      \E ty \in [1..n -> Types], tg \in [1..n -> TagSets], hc \in BOOLEAN :
        \E c \in (IF hc THEN SUBSET (1..n) ELSE {{}}), sel \in {{}} \cup {{i} : i \in 1..n} :
          f = SceneFile([i \in 1..n |-> [id |-> i, type |-> ty[i], tags |-> tg[i]]],
                        hc, c, sel)

Init ==
    /\ IsInitialFile(inputFile)
    /\ outputFile = <<>>
    /\ objects = <<>> /\ hasColl = FALSE /\ coll = {} /\ selected = {}
    /\ pc = "load" /\ run = 1
    /\ nextId = MaxObjs + 1
    /\ solved_rooms = <<>> /\ nonroom_objs = <<>> /\ scene_objs = <<>>
    /\ scene_preprocessed = FALSE /\ camera_rigs = <<>> /\ extracted = <<>>
    /\ solved_floor_surface = 0
    /\ calls = <<>> /\ raised = "none" /\ visited = <<>>
    /\ tagLookups = <<>> /\ joinCalls = <<>> /\ solveCalls = <<>>
    /\ prevOut = <<>> /\ prevRigs = {}

\* ------------------------------------------------- pure parts of the code
\* tagging.get_tags(o): the tag set the tagging collaborator reports for o.
get_tags(o) == o.tags

\* line 36: all_objs = [o for o in bpy.data.objects if o.type == 'MESH']
all_objs(objs) == SelectSeq(objs, LAMBDA o : o.type = "MESH")

\* line 37: room_objs = [o for o in all_objs if Room in get_tags(o)]
room_objs_Negated(all) == SelectSeq(all, LAMBDA o : Room \notin get_tags(o))
room_objs(all) == SelectSeq(all, LAMBDA o : Room \in get_tags(o))

\* line 38: nonroom_objs = [o for o in all_objs if Room not in get_tags(o)]
nonroom_objs_All(all) == all
nonroom_objs_of(all) == SelectSeq(all, LAMBDA o : Room \notin get_tags(o))

\* line 41: the third result, room_objs + nonroom_objs
combined_Swapped(rooms, nonrooms) == nonrooms \o rooms
combined(rooms, nonrooms) == rooms \o nonrooms

\* lines 37-38: the get_tags calls the two comprehensions make, in order
lookups_OnePass(all) == Ids(all)
lookups(all) == Ids(all) \o Ids(all)

\* line 24: objects_to_delete = list(rig_collection.objects)
objects_to_delete_Everything(objs, c) == Ids(objs)
objects_to_delete(objs, c) == SelectSeq(Ids(objs), LAMBDA i : i \in c)

\* butil.SelectObjects(objs): inside the context exactly objs are selected,
\* whatever was selected before.
SelectObjects(sel, objs) == Range(objs)

\* bpy.ops.object.delete(): removes the selected objects from the scene.
ops_object_delete(objs, sel) == RemoveIds(objs, sel)

\* butil.join_objects(objs): the objects merge into the first of them; an empty
\* list yields a new, empty object.
join_result(objs, fresh) == IF objs = <<>> THEN fresh ELSE objs[1]

\* ------------------------------------------------------------ control flow
\* lines 48-86: the statements of re_pose_cameras in program order
NextPc_SaveBeforeCleanup(p) ==
    CASE p = "load" -> "clean"
      [] p = "clean" -> "classify"
      [] p = "classify" -> "preprocess"
      [] p = "preprocess" -> "spawn"
      [] p = "spawn" -> "extract"
      [] p = "extract" -> "join"
      [] p = "join" -> "solve"
      [] p = "solve" -> "save"
      [] p = "save" -> "delete_floor"
      [] p = "delete_floor" -> "done"
      [] OTHER -> p
NextPc(p) ==
    CASE p = "load" -> "clean"
      [] p = "clean" -> "classify"
      [] p = "classify" -> "preprocess"
      [] p = "preprocess" -> "spawn"
      [] p = "spawn" -> "extract"
      [] p = "extract" -> "join"
      [] p = "join" -> "solve"
      [] p = "solve" -> "delete_floor"
      [] p = "delete_floor" -> "save"
      [] p = "save" -> "done"
      [] OTHER -> p

\* An external call raises: with no try/except anywhere in the file the error
\* leaves re_pose_cameras and the process ends.
Raise_Swallowed(call) ==
    /\ calls' = Append(calls, call)
    /\ raised' = call
    /\ pc' = NextPc(pc)
Raise(call) ==
    /\ calls' = Append(calls, call)
    /\ raised' = call
    /\ pc' = "aborted"

Reached(state) == visited' = Append(visited, state)

\* --------------------------------------------------------------- actions
\* line 48: bpy.ops.wm.open_mainfile replaces the scene by the file's content
Load ==
    /\ pc = "load"
    /\ \/ /\ objects' = inputFile.objects
          /\ hasColl' = inputFile.hasColl
          /\ coll' = inputFile.coll
          /\ selected' = inputFile.selected
          /\ calls' = Append(calls, "open_mainfile")
          /\ pc' = NextPc(pc)
          /\ Reached("Loaded")
          /\ UNCHANGED raised
       \/ /\ Raise("open_mainfile")
          /\ UNCHANGED <<scene, visited>>
    /\ UNCHANGED <<disk, locals, nextId, tagLookups, joinCalls, solveCalls>>

\* lines 17-32 (called at line 51): delete_existing_camera_rigs
delete_existing_camera_rigs ==
    /\ pc = "clean"
    /\ \/ /\ ~hasColl                                        \* lines 19-21
          /\ pc' = NextPc(pc) /\ Reached("Cleaned")
          /\ UNCHANGED <<scene, calls, raised>>
       \/ /\ hasColl                                         \* lines 26-28
          /\ objects_to_delete(objects, coll) = <<>>
          /\ pc' = NextPc(pc) /\ Reached("Cleaned")
          /\ UNCHANGED <<scene, calls, raised>>
       \/ /\ hasColl                                         \* lines 30-32
          /\ objects_to_delete(objects, coll) # <<>>
          /\ LET sel == SelectObjects(selected, objects_to_delete(objects, coll))
             IN  /\ objects' = ops_object_delete(objects, sel)
                 /\ coll' = coll \ sel
                 /\ selected' = selected \ sel
          /\ calls' = Append(calls, "object.delete")
          /\ pc' = NextPc(pc) /\ Reached("Cleaned")
          /\ UNCHANGED <<hasColl, raised>>
       \/ /\ hasColl
          /\ objects_to_delete(objects, coll) # <<>>
          /\ Raise("object.delete")
          /\ UNCHANGED <<scene, visited>>
    /\ UNCHANGED <<disk, locals, nextId, tagLookups, joinCalls, solveCalls>>

\* lines 34-41 (called at line 54): reconstruct_scene_vars
reconstruct_scene_vars ==
    /\ pc = "classify"
    /\ LET all == all_objs(objects)
           rooms == room_objs(all)
           nonrooms == nonroom_objs_of(all)
       IN  /\ solved_rooms' = Ids(rooms)
           /\ nonroom_objs' = Ids(nonrooms)
           /\ scene_objs' = Ids(combined(rooms, nonrooms))
           /\ tagLookups' = tagLookups \o lookups(all)
    /\ pc' = NextPc(pc) /\ Reached("Classified")
    /\ UNCHANGED <<scene, disk, nextId, calls, raised, joinCalls, solveCalls,
                   scene_preprocessed, camera_rigs, extracted, solved_floor_surface>>

\* lines 60-62: placement.camera.camera_selection_preprocessing
Preprocess ==
    /\ pc = "preprocess"
    /\ \/ /\ scene_preprocessed' = TRUE
          /\ calls' = Append(calls, "camera_selection_preprocessing")
          /\ pc' = NextPc(pc)
          /\ UNCHANGED raised
       \/ /\ Raise("camera_selection_preprocessing")
          /\ UNCHANGED scene_preprocessed
    /\ UNCHANGED <<scene, disk, nextId, visited, tagLookups, joinCalls, solveCalls,
                   solved_rooms, nonroom_objs, scene_objs, camera_rigs, extracted,
                   solved_floor_surface>>

\* line 65: placement.camera.spawn_camera_rigs creates the rigs (not meshes)
\* and groups them in the "camera_rigs" collection
Spawn ==
    /\ pc = "spawn"
    /\ \/ /\ LET rigs == FreshIds(nextId, NCameraRigs)
             IN  /\ camera_rigs' = rigs
                 /\ objects' = objects \o NewObjs(rigs, "EMPTY")
                 /\ coll' = coll \cup Range(rigs)
          /\ hasColl' = TRUE
          /\ nextId' = nextId + NCameraRigs
          /\ calls' = Append(calls, "spawn_camera_rigs")
          /\ pc' = NextPc(pc)
          /\ UNCHANGED raised
       \/ /\ Raise("spawn_camera_rigs")
          /\ UNCHANGED <<camera_rigs, objects, coll, hasColl, nextId>>
    /\ UNCHANGED <<selected, disk, visited, tagLookups, joinCalls, solveCalls,
                   solved_rooms, nonroom_objs, scene_objs, scene_preprocessed,
                   extracted, solved_floor_surface>>

\* lines 69-72: one tagging.extract_tagged_faces call per room, each creating
\* a mesh object; the k-th call may raise after k-1 objects were created
Extract ==
    /\ pc = "extract"
    /\ \/ /\ LET tmp == FreshIds(nextId, Len(solved_rooms))
             IN  /\ extracted' = tmp
                 /\ objects' = objects \o NewObjs(tmp, "MESH")
          /\ nextId' = nextId + Len(solved_rooms)
          /\ calls' = calls \o [i \in 1..Len(solved_rooms) |-> "extract_tagged_faces"]
          /\ pc' = NextPc(pc)
          /\ UNCHANGED raised
       \/ \E k \in 1..Len(solved_rooms) :
            /\ objects' = objects \o NewObjs(FreshIds(nextId, k - 1), "MESH")
            /\ nextId' = nextId + k - 1
            /\ calls' = calls \o [i \in 1..k |-> "extract_tagged_faces"]
            /\ raised' = "extract_tagged_faces"
            /\ pc' = "aborted"
            /\ UNCHANGED extracted
    /\ UNCHANGED <<hasColl, coll, selected, disk, visited, tagLookups, joinCalls,
                   solveCalls, solved_rooms, nonroom_objs, scene_objs,
                   scene_preprocessed, camera_rigs, solved_floor_surface>>

\* line 68: butil.join_objects on the extracted objects
Join ==
    /\ pc = "join"
    /\ \/ /\ LET floor == join_result(extracted, nextId)
             IN  /\ solved_floor_surface' = floor
                 /\ objects' = IF extracted = <<>>
                               THEN objects \o NewObjs(<<floor>>, "MESH")
                               ELSE RemoveIds(objects, Range(extracted) \ {floor})
          /\ nextId' = IF extracted = <<>> THEN nextId + 1 ELSE nextId
          /\ joinCalls' = Append(joinCalls, extracted)
          /\ calls' = Append(calls, "join_objects")
          /\ pc' = NextPc(pc)
          /\ UNCHANGED raised
       \/ /\ joinCalls' = Append(joinCalls, extracted)
          /\ Raise("join_objects")
          /\ UNCHANGED <<solved_floor_surface, objects, nextId>>
    /\ UNCHANGED <<hasColl, coll, selected, disk, visited, tagLookups, solveCalls,
                   solved_rooms, nonroom_objs, scene_objs, scene_preprocessed,
                   camera_rigs, extracted>>

\* lines 74-79: cam_traj.compute_poses poses the rigs in place
Solve ==
    /\ pc = "solve"
    /\ solveCalls' = Append(solveCalls,
                            [cam_rigs |-> camera_rigs,
                             scene_preprocessed |-> scene_preprocessed,
                             init_surfaces |-> solved_floor_surface,
                             nonroom_objs |-> nonroom_objs])
    /\ \/ /\ calls' = Append(calls, "compute_poses")
          /\ pc' = NextPc(pc)
          /\ UNCHANGED raised
       \/ Raise("compute_poses")
    /\ UNCHANGED <<scene, disk, locals, nextId, visited, tagLookups, joinCalls>>

\* line 80: butil.delete(solved_floor_surface)
DeleteFloor_Skipped == objects
DeleteFloor_objects == RemoveIds(objects, {solved_floor_surface})
DeleteFloor ==
    /\ pc = "delete_floor"
    /\ \/ /\ objects' = DeleteFloor_objects
          /\ calls' = Append(calls, "butil.delete")
          /\ pc' = NextPc(pc) /\ Reached("Placed")
          /\ UNCHANGED raised
       \/ /\ Raise("butil.delete")
          /\ UNCHANGED <<objects, visited>>
    /\ UNCHANGED <<hasColl, coll, selected, disk, locals, nextId, tagLookups,
                   joinCalls, solveCalls>>

\* lines 85-86: bpy.ops.wm.save_as_mainfile writes the scene to the output path
Save ==
    /\ pc = "save"
    /\ \/ /\ outputFile' = <<SceneFile(objects, hasColl, coll, selected)>>
          /\ calls' = Append(calls, "save_as_mainfile")
          /\ pc' = NextPc(pc) /\ Reached("Saved")
          /\ UNCHANGED raised
       \/ /\ Raise("save_as_mainfile")
          /\ UNCHANGED <<outputFile, visited>>
    /\ UNCHANGED <<scene, inputFile, prevOut, prevRigs, run, locals, nextId,
                   tagLookups, joinCalls, solveCalls>>

\* lines 89-97: the script is started again, on the file the last run wrote
Rerun ==
    /\ pc = "done" /\ run < MaxRuns
    /\ run' = run + 1
    /\ inputFile' = outputFile[1]
    /\ prevOut' = outputFile /\ prevRigs' = Range(camera_rigs)
    /\ outputFile' = <<>>
    /\ objects' = <<>> /\ hasColl' = FALSE /\ coll' = {} /\ selected' = {}
    /\ pc' = "load"
    /\ solved_rooms' = <<>> /\ nonroom_objs' = <<>> /\ scene_objs' = <<>>
    /\ scene_preprocessed' = FALSE /\ camera_rigs' = <<>> /\ extracted' = <<>>
    /\ solved_floor_surface' = 0
    /\ calls' = <<>> /\ raised' = "none" /\ visited' = <<>>
    /\ tagLookups' = <<>> /\ joinCalls' = <<>> /\ solveCalls' = <<>>
    /\ UNCHANGED nextId

\* One statement of re_pose_cameras
RunStep ==
    \/ Load
    \/ delete_existing_camera_rigs
    \/ reconstruct_scene_vars
    \/ Preprocess
    \/ Spawn
    \/ Extract
    \/ Join
    \/ Solve
    \/ DeleteFloor
    \/ Save

Next == RunStep \/ Rerun

Spec == Init /\ [][Next]_vars

\* The script is single-threaded and synchronous: a started run keeps
\* executing its statements until it returns or raises.
FairSpec == Spec /\ WF_vars(RunStep)

\* ---------------------------------------------------------------- claims
IsMesh(o) == o.type = "MESH"
IsRoomMesh(o) == o.type = "MESH" /\ Room \in o.tags
IsPlainMesh(o) == o.type = "MESH" /\ Room \notin o.tags
NumWhere(objs, P(_)) == Cardinality({i \in 1..Len(objs) : P(objs[i])})
Pos(objs, i) == CHOOSE k \in 1..Len(objs) : objs[k].id = i
IsPrefix(s, t) == Len(s) <= Len(t) /\ \A i \in 1..Len(s) : s[i] = t[i]
Workflow == <<"Loaded", "Cleaned", "Classified", "Placed", "Saved">>
InputMembers == inputFile.coll \cap IdSet(inputFile.objects)
CleanerDone == pc = "classify"
ClassifierDone == pc = "preprocess"

\* C1: when "camera_rigs" exists with N >= 1 members, one call of
\* delete_existing_camera_rigs removes exactly those members: the objects left
\* are the loaded objects that were not members, each unchanged and in the
\* same order, and one delete command was issued.
C1_CleanerRemovesExactlyMembers ==
    (CleanerDone /\ inputFile.hasColl /\ InputMembers # {}) =>
        /\ IdSet(objects) = IdSet(inputFile.objects) \ InputMembers
        /\ Range(objects) = {o \in Range(inputFile.objects) : o.id \notin InputMembers}
        /\ \A i, j \in 1..Len(objects) :
             i < j => Pos(inputFile.objects, objects[i].id) < Pos(inputFile.objects, objects[j].id)
        /\ Len(objects) = Len(inputFile.objects) - Cardinality(InputMembers)
        /\ Count(calls, "object.delete") = 1

\* C1 witness: the cleaner has deleted a member while a non-member, selected
\* when the file was saved, is still in the scene.
C1_Witness ==
    /\ CleanerDone /\ inputFile.hasColl /\ InputMembers # {}
    /\ inputFile.selected # {} /\ inputFile.selected \cap InputMembers = {}
    /\ inputFile.selected \subseteq IdSet(objects)
    /\ Len(objects) < Len(inputFile.objects)

\* C2: when "camera_rigs" is absent, or present without members, the cleaner
\* issues no delete command, leaves the scene as loaded and returns normally.
C2_CleanerNoOp ==
    ((~inputFile.hasColl \/ InputMembers = {}) /\ "Loaded" \in Range(visited)
        /\ pc # "clean") =>
        /\ "Cleaned" \in Range(visited)
        /\ "object.delete" \notin Range(calls)
        /\ raised # "object.delete"
        /\ CleanerDone =>
             /\ objects = inputFile.objects
             /\ hasColl = inputFile.hasColl
             /\ coll = inputFile.coll
             /\ selected = inputFile.selected

\* C2 witness: the cleaner returned on a scene that holds objects and an empty
\* "camera_rigs" collection.
C2_Witness ==
    /\ CleanerDone /\ inputFile.hasColl /\ InputMembers = {}
    /\ Len(objects) >= 2 /\ "Cleaned" \in Range(visited)

\* C3: right after reconstruct_scene_vars every mesh object is in exactly one
\* of rooms and non-rooms, no non-mesh object is in either, neither list
\* repeats an object, and a mesh object is in rooms iff get_tags reports Room.
C3_Partition ==
    ClassifierDone =>
        /\ \A o \in Range(objects) :
             /\ o.id \in Range(solved_rooms) <=> (IsMesh(o) /\ Room \in get_tags(o))
             /\ o.id \in Range(nonroom_objs) <=> (IsMesh(o) /\ Room \notin get_tags(o))
        /\ Range(solved_rooms) \cap Range(nonroom_objs) = {}
        /\ Range(solved_rooms) \cup Range(nonroom_objs)
             = {o.id : o \in {x \in Range(objects) : IsMesh(x)}}
        /\ NoDup(solved_rooms) /\ NoDup(nonroom_objs)
        /\ Len(solved_rooms) + Len(nonroom_objs) = NumWhere(objects, IsMesh)

\* C3 witness: a classified scene with a room mesh, a plain mesh and a
\* non-mesh object that carries the Room tag.
C3_Witness ==
    /\ ClassifierDone
    /\ solved_rooms # <<>> /\ nonroom_objs # <<>>
    /\ \E o \in Range(objects) : ~IsMesh(o) /\ Room \in o.tags

\* C4: the combined list is the rooms list followed by the non-rooms list, and
\* inside each part the objects keep the scene's enumeration order.
C4_CombinedOrder ==
    ClassifierDone =>
        /\ Len(scene_objs) = Len(solved_rooms) + Len(nonroom_objs)
        /\ \A i \in 1..Len(solved_rooms) : scene_objs[i] = solved_rooms[i]
        /\ \A i \in 1..Len(nonroom_objs) :
             scene_objs[Len(solved_rooms) + i] = nonroom_objs[i]
        /\ \A i, j \in 1..Len(scene_objs) :
             (i < j /\ scene_objs[j] \in Range(solved_rooms))
                => scene_objs[i] \in Range(solved_rooms)
        /\ \A i, j \in 1..Len(solved_rooms) :
             i < j => Pos(objects, solved_rooms[i]) < Pos(objects, solved_rooms[j])
        /\ \A i, j \in 1..Len(nonroom_objs) :
             i < j => Pos(objects, nonroom_objs[i]) < Pos(objects, nonroom_objs[j])

\* C4 witness: two rooms and a plain mesh that the scene enumerates before
\* the second room.
C4_Witness ==
    /\ ClassifierDone
    /\ Len(solved_rooms) >= 2 /\ Len(nonroom_objs) >= 1
    /\ Pos(objects, nonroom_objs[1]) < Pos(objects, solved_rooms[2])

\* C5 (as claimed): once the joined floor-surface object exists, no run ends,
\* by returning or by an error, with that object still in the scene.
C5_FloorDeletedOnEveryExit ==
    (pc \in {"done", "aborted"} /\ solved_floor_surface # 0)
        => solved_floor_surface \notin IdSet(objects)

\* C6: once an external call has raised, the run is over at that call: it is
\* the last call issued, it was not retried, the workflow state reached before
\* it is the last one, nothing was saved and no output file exists.
C6_FailureAborts ==
    raised # "none" =>
        /\ pc = "aborted"
        /\ calls # <<>> /\ calls[Len(calls)] = raised
        /\ raised # "extract_tagged_faces" => Count(calls, raised) = 1
        /\ raised # "save_as_mainfile" => "save_as_mainfile" \notin Range(calls)
        /\ "Saved" \notin Range(visited)
        /\ outputFile = <<>>
        /\ raised \in {"spawn_camera_rigs", "extract_tagged_faces", "join_objects",
                       "compute_poses"}
             => /\ visited = <<"Loaded", "Cleaned", "Classified">>
                /\ "butil.delete" \notin Range(calls)

\* C6 witness: the trajectory solver raised after the rigs were spawned and
\* the floor surface joined.
C6_Witness ==
    /\ raised = "compute_poses" /\ pc = "aborted"
    /\ camera_rigs # <<>> /\ solved_floor_surface # 0

\* C7: the workflow states are reached only in the order Loaded, Cleaned,
\* Classified, Placed, Saved, one at a time and each at most once per run;
\* Saved ends the run; and a run in which no call raises reaches Saved.
C7_LinearWorkflow ==
    /\ [](IsPrefix(visited, Workflow) /\ ("Saved" \in Range(visited) => pc = "done"))
    /\ [][visited' # visited =>
            \/ (Len(visited) < Len(Workflow)
                  /\ visited' = SubSeq(Workflow, 1, Len(visited) + 1))
            \/ (visited = Workflow /\ visited' = <<>> /\ run' = run + 1)]_vars
    /\ \A r \in 1..MaxRuns :
         (run = r /\ pc = "load") ~> (run = r /\ (raised # "none" \/ visited = Workflow))

\* C7 witness: a second run has gone through all five states without an error.
C7_Witness == run = 2 /\ visited = Workflow /\ raised = "none" /\ pc = "done"

\* C8: a second run on the file the first run saved ends with as many room
\* and non-room objects as the first run's output, with none of the first run's
\* rigs left, and with exactly the second run's rigs in "camera_rigs".
C8_Idempotent ==
    (pc = "done" /\ prevOut # <<>>) =>
        LET out == outputFile[1]
            before == prevOut[1]
        IN  /\ NumWhere(out.objects, IsRoomMesh) = NumWhere(before.objects, IsRoomMesh)
            /\ NumWhere(out.objects, IsPlainMesh) = NumWhere(before.objects, IsPlainMesh)
            /\ prevRigs \cap IdSet(out.objects) = {}
            /\ prevRigs \cap out.coll = {}
            /\ out.hasColl /\ out.coll = Range(camera_rigs)
            /\ Range(camera_rigs) \subseteq IdSet(out.objects)
            /\ Cardinality(out.coll) = Cardinality(before.coll)

\* C8 witness: the second run has saved a scene with rooms and other meshes,
\* after a first run that had spawned rigs.
C8_Witness ==
    /\ pc = "done" /\ run = 2 /\ prevRigs # {}
    /\ prevRigs \subseteq IdSet(inputFile.objects)
    /\ NumWhere(outputFile[1].objects, IsRoomMesh) >= 1
    /\ NumWhere(outputFile[1].objects, IsPlainMesh) >= 1

\* C9: on a scene without "camera_rigs" and without room objects no face
\* extraction is called, join_objects is called once, on the empty list,
\* compute_poses is called once with that floor surface and the non-room list,
\* and the run then deletes the surface and saves.
NoRigsNoRooms == ~inputFile.hasColl /\ NumWhere(inputFile.objects, IsRoomMesh) = 0
C10_AtMostOneLookup ==
    \A o \in Range(objects) : Count(tagLookups, o.id) <= 1

\* C10 (amended): one call of reconstruct_scene_vars calls get_tags exactly
\* twice for every mesh object, once in each filtering pass, and never for a
\* non-mesh object; the scene is the same at both calls.
C10_TwoLookupsPerMesh ==
    /\ \A o \in Range(objects) : Count(tagLookups, o.id) <= 2
    /\ ClassifierDone =>
         /\ \A o \in Range(objects) :
              Count(tagLookups, o.id) = IF IsMesh(o) THEN 2 ELSE 0
         /\ Len(tagLookups) = 2 * NumWhere(objects, IsMesh)
         /\ Range(tagLookups) \subseteq IdSet(objects)

\* C10 witness: a classified scene with a mesh object and a non-mesh object.
C10_Witness ==
    /\ ClassifierDone
    /\ \E o \in Range(objects) : IsMesh(o) /\ Count(tagLookups, o.id) = 2
    /\ \E o \in Range(objects) : ~IsMesh(o)

====
